---------------------------- MODULE Spec2Model ----------------------------
(***************************************************************************)
(* A model of fleck: the limb-darkening law, Star.light_curve of           *)
(* fleck/core.py and the ActiveStar methods of fleck/jax.py.               *)
(*                                                                         *)
(* Numbers.  The code computes in IEEE doubles.  The model computes in     *)
(* exact rationals <<n, d>> (d > 0, lowest terms) extended with the three  *)
(* IEEE specials the code can produce: NaN = <<0, 0>>, +inf = <<1, 0>>,    *)
(* -inf = <<-1, 0>>.  Quantities that carry a factor pi in the code        *)
(* (limb_darkening, f_spots, f0) are carried as their rational coefficient *)
(* of pi or of 1/pi; the factor cancels wherever the code combines them.   *)
(* Angles are drawn from the twelve directions whose cosine and sine are   *)
(* multiples of 1/5 (the quarter turns and the 3-4-5 angles), so that the  *)
(* rotations, hypot and sqrt of the code are exact in the model.           *)
(***************************************************************************)
EXTENDS Integers, Sequences, FiniteSets, TLC

VARIABLES
    ld,             \* one evaluation of the limb-darkening functions
    star,           \* the Star object (core.py)
    call,           \* the arguments of the Star.light_curve call in progress
    pc,             \* position of that call
    tilted_spots,   \* local of light_curve: rotated spot positions
    f_spots,        \* local of light_curve: masked per-spot flux deficit
    lambda_e,       \* local of light_curve: transit flux loss per time
    transit,        \* locals of the transit routine (planet_disk, t0_inds, ...)
    result,         \* what the call returned or raised
    astar,          \* the ActiveStar object (jax.py)
    jcall           \* the ActiveStar method call and what it returned

vars == <<ld, star, call, pc, tilted_spots, f_spots, lambda_e, transit,
          result, astar, jcall>>

None == "None"

-----------------------------------------------------------------------------
(* Exact arithmetic with the IEEE specials.                                *)

Abs(x) == IF x < 0 THEN -x ELSE x

Sgn(x) == IF x < 0 THEN -1 ELSE IF x > 0 THEN 1 ELSE 0

RECURSIVE GCD(_, _)
GCD(a, b) == IF b = 0 THEN a ELSE GCD(b, a % b)

\* the value n/d as the code's doubles hold it: x/0 is +-inf, 0/0 is nan
Rat(n, d) ==
    IF d = 0 THEN <<Sgn(n), 0>>
    ELSE LET g == GCD(Abs(n), Abs(d))
             s == IF d < 0 THEN -1 ELSE 1
         IN  <<(s * n) \div g, (s * d) \div g>>

NaN == <<0, 0>>
Zero == <<0, 1>>
One == <<1, 1>>

IsNaN(a) == a = NaN
IsInf(a) == a[2] = 0 /\ a[1] # 0
IsFinite(a) == a[2] # 0

RNeg(a) == <<-a[1], a[2]>>

RAdd(a, b) ==
    IF IsNaN(a) \/ IsNaN(b) THEN NaN
    ELSE IF IsInf(a) /\ IsInf(b) THEN (IF a = b THEN a ELSE NaN)
    ELSE IF IsInf(a) THEN a
    ELSE IF IsInf(b) THEN b
    ELSE LET g == GCD(a[2], b[2])
         IN  Rat(a[1] * (b[2] \div g) + b[1] * (a[2] \div g),
                 (a[2] \div g) * b[2])

RSub(a, b) == RAdd(a, RNeg(b))

RMul(a, b) ==
    IF IsNaN(a) \/ IsNaN(b) THEN NaN
    ELSE IF IsInf(a) \/ IsInf(b)
         THEN <<Sgn(a[1]) * Sgn(b[1]), 0>>      \* inf * 0 is nan
    ELSE LET g1 == GCD(Abs(a[1]), b[2])
             g2 == GCD(Abs(b[1]), a[2])
         IN  Rat((a[1] \div g1) * (b[1] \div g2),
                 (a[2] \div g2) * (b[2] \div g1))

RDiv(a, b) ==
    IF IsNaN(a) \/ IsNaN(b) THEN NaN
    ELSE IF IsInf(b) THEN (IF IsInf(a) THEN NaN ELSE Zero)
    ELSE IF IsInf(a) THEN <<a[1] * (IF b[1] < 0 THEN -1 ELSE 1), 0>>
    ELSE IF b[1] = 0 THEN <<Sgn(a[1]), 0>>      \* x/0 is +-inf, 0/0 is nan
    ELSE RMul(a, Rat(b[2], b[1]))

\* a < b for finite a, b; every comparison with nan is False
RLess(a, b) ==
    /\ ~IsNaN(a) /\ ~IsNaN(b)
    /\ IF IsFinite(a) /\ IsFinite(b) THEN a[1] * b[2] < b[1] * a[2]
       ELSE IF IsInf(a) /\ IsInf(b) THEN a[1] < b[1]
       ELSE IF IsInf(a) THEN a[1] < 0
       ELSE b[1] > 0

RMax(a, b) == IF RLess(a, b) THEN b ELSE a

RECURSIVE ISqrtFrom(_, _)
ISqrtFrom(n, k) == IF (k + 1) * (k + 1) > n THEN k ELSE ISqrtFrom(n, k + 1)

\* np.sqrt: nan below zero (numpy warns, it does not raise); the model only
\* takes roots of squares of rationals, where the root is exact
RSqrt(a) ==
    IF IsNaN(a) THEN NaN
    ELSE IF IsInf(a) THEN (IF a[1] > 0 THEN a ELSE NaN)
    ELSE IF a[1] < 0 THEN NaN
    ELSE <<ISqrtFrom(a[1], 0), ISqrtFrom(a[2], 0)>>

RSq(a) == RMul(a, a)

RECURSIVE RSum(_)
RSum(s) == IF s = <<>> THEN Zero ELSE RAdd(Head(s), RSum(Tail(s)))

RECURSIVE RMaxSeq(_)
RMaxSeq(s) == IF Len(s) = 1 THEN s[1] ELSE RMax(s[1], RMaxSeq(Tail(s)))

-----------------------------------------------------------------------------
(* fleck/core.py: the limb-darkening law.  limb_darkening is carried as    *)
(* the coefficient of 1/pi, total_flux as the coefficient of pi.           *)

\* 1 - u1/3 - u2/6
ld_denominator(u_ld) ==
    RSub(RSub(One, RDiv(u_ld[1], Rat(3, 1))), RDiv(u_ld[2], Rat(6, 1)))

\* a variant that takes the root of |1 - r^2|, and so has a value beyond r = 1
limb_darkening_abs(u_ld, r) ==
    LET d  == RSub(One, RSq(r))
        mu == RSqrt(IF RLess(d, Zero) THEN RNeg(d) ELSE d)
        om == RSub(One, mu)
    IN  RDiv(RSub(RSub(One, RMul(u_ld[1], om)), RMul(u_ld[2], RSq(om))),
             ld_denominator(u_ld))

limb_darkening(u_ld, r) ==
    LET mu == RSqrt(RSub(One, RSq(r)))
        om == RSub(One, mu)
    IN  RDiv(RSub(RSub(One, RMul(u_ld[1], om)), RMul(u_ld[2], RSq(om))),
             ld_denominator(u_ld))

\* a variant normalised by the flux at the limb instead of the centre
limb_darkening_normed_limb(u_ld, r) ==
    RDiv(limb_darkening(u_ld, r), limb_darkening(u_ld, One))

limb_darkening_normed(u_ld, r) ==
    RDiv(limb_darkening(u_ld, r), limb_darkening(u_ld, Zero))

\* 2 pi * integral over [0, 1] of r * limb_darkening_normed(u_ld, r): for the
\* quadratic law the integral quad approximates is pi * (1 - u1/3 - u2/6)
total_flux(u_ld) ==
    IF IsFinite(limb_darkening(u_ld, Zero)) THEN ld_denominator(u_ld) ELSE NaN

-----------------------------------------------------------------------------
(* Angles.  Direction k of 0..11 has cosine Cos5(k)/5 and sine Sin5(k)/5;  *)
(* directions 0, 3, 6, 9 are the quarter turns.                            *)

Cos5(k) == <<5, 4, 3, 0, -3, -4, -5, -4, -3, 0, 3, 4>>[(k % 12) + 1]
Sin5(k) == Cos5(k + 9)

\* cosine and sine of q quarter turns
C4(q) == <<1, 0, -1, 0>>[(q % 4) + 1]
S4(q) == C4(q + 3)

\* an angle in degrees that is a multiple of 90, as quarter turns
Quarters(deg) == (deg \div 90) % 4

\* astropy rotation_matrix(angle, axis) applied to a vector (sequence of its
\* x, y, z in fifths), for an angle of q quarter turns
rotation_matrix(q, axis, v) ==
    LET c == C4(q)
        s == S4(q)
    IN  CASE axis = "z" -> <<c * v[1] + s * v[2], c * v[2] - s * v[1], v[3]>>
          [] axis = "y" -> <<c * v[1] - s * v[3], v[2], c * v[3] + s * v[1]>>
          [] axis = "x" -> <<v[1], c * v[2] + s * v[3], c * v[3] - s * v[2]>>

\* UnitSphericalRepresentation(lon, lat) as a CartesianRepresentation; the
\* inputs are chosen so that the product of the two fifths is a fifth
UnitSpherical(lon, lat) ==
    <<(Cos5(lat) * Cos5(lon)) \div 5, (Cos5(lat) * Sin5(lon)) \div 5, Sin5(lat)>>

F5(v) == Rat(v, 5)

\* a rational that is a multiple of 1/5, in fifths
Fifths(a) == (a[1] * 5) \div a[2]

\* np.hypot of two fifths, in fifths (exact for the directions of the model)
Hypot5(a, b) == ISqrtFrom(a * a + b * b, 0)

\* np.sqrt(1 - r**2) for r in fifths, in fifths
Mu5(r5) == ISqrtFrom(25 - r5 * r5, 0)

-----------------------------------------------------------------------------
(* Bounds and input sets of the model.                                     *)

MaxSpots == 2       \* most spots in one call
MaxInc == 2         \* most stellar inclinations in one call
NTimes == 6         \* length of a times array
MaxU == 6           \* limb-darkening coefficients range over -MaxU..MaxU

\* spots as (lon direction, lat direction, radius): on the equator at any
\* longitude, or at a quarter-turn longitude at any latitude
SpotCatalogue ==
    << [lon |-> 0, lat |-> 0, rad |-> Rat(2, 5)],
       [lon |-> 1, lat |-> 0, rad |-> Rat(2, 5)],
       [lon |-> 0, lat |-> 1, rad |-> Rat(1, 5)],
       [lon |-> 6, lat |-> 0, rad |-> Rat(1, 5)] >>

SeqsUpTo(S, n) == UNION { [1..k -> S] : k \in 0..n }

Stars ==
    { [spot_contrast |-> Zero, u_ld |-> <<Rat(1, 2), Rat(1, 5)>>],
      [spot_contrast |-> Rat(1, 2), u_ld |-> <<Zero, Zero>>] }

-----------------------------------------------------------------------------
(* fleck/core.py: Star.spot_params_to_cartesian.                           *)

\* a variant that tilts to the inclination before it turns about the spin axis
spot_params_to_cartesian_reordered(spots, incs, rot, lam) ==
    [t \in 1..Len(rot) |->
       [i \in 1..Len(spots) |->
          [c \in 1..Len(incs) |->
             rotation_matrix(Quarters(lam), "x",
                 rotation_matrix(rot[t], "z",
                     rotation_matrix(Quarters(incs[c] - 90), "y",
                         UnitSpherical(spots[i].lon, spots[i].lat))))]]]

\* rot[t]: the rotation phase of row t in quarter turns; incs: the stellar
\* inclinations in degrees; lam: the misalignment in degrees.  The result is
\* indexed [row][spot][inclination] and holds <<x, y, z>> in fifths.
spot_params_to_cartesian(spots, incs, rot, lam) ==
    [t \in 1..Len(rot) |->
       [i \in 1..Len(spots) |->
          [c \in 1..Len(incs) |->
             LET cartesian == UnitSpherical(spots[i].lon, spots[i].lat)
                 rotated_spots == rotation_matrix(rot[t], "z", cartesian)
                 inclined_spots ==
                     rotation_matrix(Quarters(incs[c] - 90), "y", rotated_spots)
             IN  rotation_matrix(Quarters(lam), "x", inclined_spots)]]]

\* 2 * pi * (times - planet.t0) / rotation_period, in quarter turns
rotational_phase(times, t0, rotation_period) ==
    [k \in 1..Len(times) |-> ((4 * (times[k] - t0)) \div rotation_period) % 4]

\* np.arange(0, 2 * pi, 2 * pi / n_phases), in quarter turns
arange_phases(n_phases) == [k \in 1..n_phases |-> ((k - 1) * 4) \div n_phases]

-----------------------------------------------------------------------------
(* fleck/core.py: Star.light_curve, the rotational part.                   *)

\* the masked array r and the flux deficit f_spots of one spot at one row
\* and inclination; data is the coefficient of pi
\* a variant that masks nothing
spot_mask_none(v) == FALSE

\* a variant that also masks the spots on the limb
spot_mask_limb(v) == v[1] <= 0

\* mask=tilted_spots.x.value < 0
spot_mask(v) == v[1] < 0

\* limb_darkening_normed at the radii a spot centre can have, evaluated once
ld_normed_at ==
    [u \in { s.u_ld : s \in Stars } |->
       [r5 \in 0..5 |-> limb_darkening_normed(u, F5(r5))]]

flux_deficit(st, rad, v) ==
    LET r5 == Hypot5(v[2], v[3])
        ldn == ld_normed_at[st.u_ld][r5]
    IN  [data |-> RMul(RMul(RMul(RSq(rad), RSub(One, st.spot_contrast)), ldn),
                       F5(Mu5(r5))),
         mask |-> spot_mask(v)]

\* a variant that forgets the mask
filled_unmasked(e) == e.data

\* f_spots.filled(0)
filled(e) == IF e.mask THEN Zero ELSE e.data

\* np.sum(f_spots.filled(0) / self.f0, axis=1): one value per row and
\* inclination; the spot axis may be empty
sum_over_spots(fs, f0, ncols) ==
    [t \in 1..Len(fs) |->
       [c \in 1..ncols |->
          RSum([i \in 1..Len(fs[t]) |-> RDiv(filled(fs[t][i][c]), f0)])]]

\* 1 - sum - lambda_e, lambda_e of shape (rows, 1) broadcast over the columns
assemble(summed, lam) ==
    [t \in 1..Len(summed) |->
       [c \in 1..Len(summed[t]) |-> RSub(RSub(One, summed[t][c]), lam[t])]]

-----------------------------------------------------------------------------
(* fleck/core.py: Star.light_curve, the transit routine.  Index j of a     *)
(* model sequence is index j - 1 of the numpy array it models.             *)

RECURSIVE SelectIdx(_, _, _)
\* the indices of lo..hi at which ok holds, ascending (np.argwhere)
SelectIdx(ok, lo, hi) ==
    IF lo > hi THEN <<>>
    ELSE (IF ok[lo] THEN <<lo>> ELSE <<>>) \o SelectIdx(ok, lo + 1, hi)

\* batman's true anomaly at time t, as one of the twelve directions
get_true_anomaly(planet, t) == (((t - planet.t0) * 12) \div planet.per) % 12

\* Murray & Correia (2010) eqs. 53-55 with I = 90 - inc, Omega = w and
\* omega = pi/2, so cos(omega + f) = -sin f and sin(omega + f) = cos f;
\* <<X, Y, Z>> in fifths
planet_position(planet, f) ==
    LET I  == Quarters(90 - planet.inc)
        Om == Quarters(planet.w)
    IN  << planet.a * (C4(Om) * (-Sin5(f)) - S4(Om) * Cos5(f) * C4(I)),
           planet.a * (S4(Om) * (-Sin5(f)) + C4(Om) * Cos5(f) * C4(I)),
           planet.a * Cos5(f) * S4(I) >>

\* the transit-only flux loss 1 - m.light_curve(planet) of batman at one
\* time: the planet's area rp^2 while its centre is on the near side of the
\* disk, 0 otherwise
transit_only_loss(planet, P) ==
    IF P[1] < 0 /\ P[2] * P[2] + P[3] * P[3] < 25 THEN RSq(planet.rp) ELSE Zero

\* a variant that forgets that the planet must be in front of the star
in_front_ignoring_X(planet, P) == RLess(F5(Abs(P[2])), RAdd(One, planet.rp))

\* planet_disk[i] is not None, and the condition of transit_inds_all

in_front(planet, P) ==
    RLess(F5(Abs(P[2])), RAdd(One, planet.rp)) /\ P[1] < 0

\* np.argwhere((np.sign(Y[1:]) < np.sign(Y[:-1])) & (X[1:] < 0))
find_t0_inds(pos) ==
    SelectIdx([j \in 1..(Len(pos) - 1) |->
                  Sgn(pos[j + 1][2]) < Sgn(pos[j][2]) /\ pos[j + 1][1] < 0],
              1, Len(pos) - 1)

\* np.argwhere((X < 0) & (np.abs(Y) < 1 + planet.rp))[:, 0]
find_transit_inds_all(planet, pos) ==
    SelectIdx([j \in 1..Len(pos) |-> in_front(planet, pos[j])], 1, Len(pos))

RECURSIVE SplitRuns(_, _)
\* data split after every position whose successor is not data + 1; cur is
\* the run being built
SplitRuns(data, cur) ==
    IF data = <<>> THEN <<cur>>
    ELSE IF cur = <<>> \/ Head(data) = cur[Len(cur)] + 1
         THEN SplitRuns(Tail(data), Append(cur, Head(data)))
         ELSE <<cur>> \o SplitRuns(Tail(data), <<Head(data)>>)

\* np.split(data, np.where(np.diff(data) != 1)[0] + 1): of an empty array,
\* one empty group
consecutive(data) == SplitRuns(data, <<>>)

\* the sample points of the planet's disk, as offsets in tenths of its radius
DiskStencil ==
    { <<0, 0>>, <<9, 0>>, <<-9, 0>>, <<0, 9>>, <<0, -9>>,
      <<4, 4>>, <<-4, 4>>, <<4, -4>>, <<-4, -4>> }

\* the ellipse of line 276 for the spot at v = <<x, y, z>> (fifths).  Lengths
\* are in units of 1/50: the centre, the semi-axes l0 = rad * sqrt(1 - r^2)
\* and l1 = rad, and the direction (dy, dz) / dn of the first semi-axis,
\* which is arctan2(spot_z, spot_y)
spot_ellipse(rad, v) ==
    LET r_spot == Hypot5(v[3], v[2])
    IN  [cy |-> 10 * v[2], cz |-> 10 * v[3],
         l0 |-> 2 * Fifths(rad) * Mu5(r_spot),
         l1 |-> 10 * Fifths(rad),
         dy |-> IF r_spot = 0 THEN 1 ELSE v[2],
         dz |-> IF r_spot = 0 THEN 0 ELSE v[3],
         dn |-> IF r_spot = 0 THEN 1 ELSE r_spot,
         r_spot |-> r_spot]

\* (u / l0)^2 + (w / l1)^2 < 1 for the point's coordinates u, w along the
\* ellipse's axes, cleared of denominators (k is half of l1 / 5)
in_ellipse(ell, py, pz) ==
    LET y == py - ell.cy
        z == pz - ell.cz
        u == y * ell.dy + z * ell.dz
        w == z * ell.dy - y * ell.dz
        k == ell.l1 \div 5
        m == ell.l0 \div k
    IN  25 * u * u + m * m * w * w < 25 * m * m * k * k * ell.dn * ell.dn

\* planet_disk_i.intersection(spots[j]).area / pi: the share of the disk's
\* sample points that lie in the ellipse, times rp^2
spot_planet_overlap(planet, P, ell) ==
    LET rp5 == Fifths(planet.rp)
        hit == { o \in DiskStencil :
                   in_ellipse(ell, 10 * P[2] + rp5 * o[1],
                                   10 * P[3] + rp5 * o[2]) }
    IN  RMul(Rat(Cardinality(hit), Cardinality(DiskStencil)), RSq(planet.rp))

\* intersections[i, j] of line 298
intersection_term(st, planet, P, ell) ==
    RMul(RDiv(RSub(One, st.spot_contrast), ld_normed_at[st.u_ld][ell.r_spot]),
         spot_planet_overlap(planet, P, ell))

\* one pass of the loop of line 255: the spots visible at t0_ind, their
\* ellipses, and the intersections array of the transit's rows
transit_event(st, cl, ts, pos, t0_ind, transit_inds) ==
    LET n_spots == Len(cl.spots)
        vis == SelectIdx([i \in 1..n_spots |-> ts[t0_ind][i][1][1] > 0],
                         1, n_spots)
        ells == [j \in 1..Len(vis) |->
                    spot_ellipse(cl.spots[vis[j]].rad, ts[t0_ind][vis[j]][1])]
    IN  [t0_ind |-> t0_ind,
         transit_inds |-> transit_inds,
         spots |-> vis,
         \* transit_inds.ptp() of an empty group raises ValueError
         raises |-> Len(vis) > 0 /\ transit_inds = <<>>,
         intersections |->
            IF Len(vis) = 0 THEN <<>>
            ELSE [i \in 1..Len(transit_inds) |->
                    [j \in 1..Len(vis) |->
                       intersection_term(st, cl.planet, pos[transit_inds[i]],
                                         ells[j])]]]

\* the sum of a row of intersections
occultation_amplitude_sum(row) == RSum(row)

\* intersections.max(axis=1), one row
occultation_amplitude(row) == RMaxSeq(row)

\* lambda_e[transit_inds] -= intersections.max(axis=1)[:, np.newaxis]
subtract_event(lam, ev) ==
    IF ev.spots = <<>> \/ ev.raises THEN lam
    ELSE [t \in 1..Len(lam) |->
            IF \E i \in 1..Len(ev.transit_inds) : ev.transit_inds[i] = t
            THEN LET i == CHOOSE i \in 1..Len(ev.transit_inds) :
                             ev.transit_inds[i] = t
                 IN  RSub(lam[t], occultation_amplitude(ev.intersections[i]))
            ELSE lam[t]]

Min(a, b) == IF a < b THEN a ELSE b

\* zip(range(len(t0_inds)), t0_inds, transit_inds_groups)
zip_events(st, cl, ts, pos, t0_inds, groups) ==
    [k \in 1..Min(Len(t0_inds), Len(groups)) |->
        transit_event(st, cl, ts, pos, t0_inds[k], groups[k])]

\* the events the loop completes: those before the first that raises
completed(events) ==
    IF \E k \in 1..Len(events) : events[k].raises
    THEN SubSeq(events, 1,
                (CHOOSE k \in 1..Len(events) :
                    /\ events[k].raises
                    /\ \A m \in 1..(k - 1) : ~events[m].raises) - 1)
    ELSE events

RECURSIVE subtract_events(_, _)
subtract_events(lam, events) ==
    IF events = <<>> THEN lam
    ELSE subtract_events(subtract_event(lam, Head(events)), Tail(events))

-----------------------------------------------------------------------------
(* The Star object and the inputs of a call.                               *)

\* Star.__init__ with n_phases and rotation_period given
Star_init(spot_contrast, u_ld, n_phases, rotation_period) ==
    [spot_contrast |-> spot_contrast,
     u_ld |-> u_ld,
     n_phases |-> n_phases,
     phases |-> arange_phases(n_phases),
     f0 |-> total_flux(u_ld),
     rotation_period |-> rotation_period]

NoPlanet == [t0 |-> 0, per |-> 12, a |-> 0, rp |-> Zero, inc |-> 90, w |-> 90,
             has_lam |-> FALSE, lam |-> 0]

\* batman.TransitParams: t0, per in time units, a and rp in stellar radii,
\* inc and w in degrees, and the optional attribute lam
Planets ==
    { [t0 |-> 0, per |-> 12, a |-> 1, rp |-> Rat(2, 5), inc |-> 90, w |-> 90,
       has_lam |-> FALSE, lam |-> 0],
      [t0 |-> 0, per |-> 12, a |-> 2, rp |-> Rat(2, 5), inc |-> 90, w |-> 90,
       has_lam |-> TRUE, lam |-> 90] }

InclinationValues == {90, 0}

ScalarInclinations ==
    { [isscalar |-> TRUE, vals |-> <<i>>] : i \in InclinationValues }

ArrayInclinations ==
    { [isscalar |-> FALSE, vals |-> v] :
        v \in SeqsUpTo(InclinationValues, MaxInc) \ {<<>>} }

TimeSteps == {1, 2, 5}

\* evenly spaced times
TimesFrom(start, step) == [k \in 1..NTimes |-> start + (k - 1) * step]

TimesArrays == { TimesFrom(s, d) : s \in 0..11, d \in TimeSteps }

\* the spot lists of a call: up to MaxSpots spots of the catalogue, taken up
\* to their order in the list
SpotSets ==
    { [k \in 1..Len(ix) |-> SpotCatalogue[ix[k]]] :
        ix \in { s \in SeqsUpTo(1..Len(SpotCatalogue), MaxSpots) :
                    \A k \in 1..(Len(s) - 1) : s[k] <= s[k + 1] } }

NoCall == [spots |-> <<>>, inc_stellar |-> [isscalar |-> TRUE, vals |-> <<90>>],
           has_planet |-> FALSE, planet |-> NoPlanet,
           has_times |-> FALSE, times |-> <<>>]

\* the calls made: without a planet; with a planet and one inclination; with
\* a planet and an array of inclinations
CallInputs ==
    { [spots |-> sp, inc_stellar |-> inc, has_planet |-> FALSE,
       planet |-> NoPlanet, has_times |-> ht,
       times |-> IF ht THEN TimesFrom(0, 1) ELSE <<>>] :
        sp \in SpotSets, inc \in ScalarInclinations \cup ArrayInclinations,
        ht \in BOOLEAN }
    \cup
    { [spots |-> sp, inc_stellar |-> inc, has_planet |-> TRUE,
       planet |-> pl, has_times |-> (tm # <<>>), times |-> tm] :
        sp \in SpotSets, inc \in ScalarInclinations, pl \in Planets,
        tm \in TimesArrays \cup {<<>>} }
    \cup
    { [spots |-> sp, inc_stellar |-> inc, has_planet |-> TRUE,
       planet |-> pl, has_times |-> (tm # <<>>), times |-> tm] :
        sp \in SpotSets, inc \in ArrayInclinations, pl \in Planets,
        tm \in {TimesFrom(0, 1), <<>>} }

NoResult == [kind |-> "none", error |-> None, flux |-> <<>>]

Raised(e) == [kind |-> "raised", error |-> e, flux |-> <<>>]

NoTransit == [pos |-> <<>>, planet_disk |-> <<>>, lambda_e0 |-> <<>>,
              t0_inds |-> <<>>, transit_inds_groups |-> <<>>, events |-> <<>>]

LDIdle == [pc |-> "idle", fn |-> None, u_ld |-> <<Zero, Zero>>, r |-> Zero,
           value |-> Zero, raised |-> None]

JaxIdle == [pc |-> "idle"]

-----------------------------------------------------------------------------
(* Star.light_curve as a state machine.                                    *)

CoreUnchanged == UNCHANGED <<ld, astar, jcall>>

\* a variant of the check of line 207 that lets every inc_stellar pass
multiple_inclinations_unchecked(inc_stellar) == FALSE

\* not inc_stellar.isscalar
multiple_inclinations(inc_stellar) == ~inc_stellar.isscalar

\* a caller calls star.light_curve(...)
Call ==
    /\ pc = "idle"
    /\ \E c \in CallInputs : call' = c
    /\ pc' = "called"
    /\ UNCHANGED <<star, tilted_spots, f_spots, lambda_e, transit, result>>
    /\ CoreUnchanged

\* lines 187-201: the spot positions, the masked radii and the flux deficits.
\* With times and no planet, line 431 reads planet.t0 of None.
SpotGeometry ==
    /\ pc = "called"
    /\ IF call.has_times /\ ~call.has_planet
       THEN /\ pc' = "raised"
            /\ result' = Raised("AttributeError")
            /\ UNCHANGED <<tilted_spots, f_spots>>
       ELSE LET rot == IF call.has_times
                       THEN rotational_phase(call.times, call.planet.t0,
                                             star.rotation_period)
                       ELSE star.phases
                lam == IF call.has_planet /\ call.planet.has_lam
                       THEN call.planet.lam ELSE 0
                ts  == spot_params_to_cartesian(call.spots,
                                                call.inc_stellar.vals, rot, lam)
            IN  /\ tilted_spots' = ts
                /\ f_spots' =
                      [t \in 1..Len(ts) |->
                         [i \in 1..Len(call.spots) |->
                            [c \in 1..Len(call.inc_stellar.vals) |->
                               flux_deficit(star, call.spots[i].rad,
                                            ts[t][i][c])]]]
                /\ pc' = "geometry"
                /\ UNCHANGED result
    /\ UNCHANGED <<star, call, lambda_e, transit>>
    /\ CoreUnchanged

\* lines 203-205: no planet, no transit
SkipTransit ==
    /\ pc = "geometry"
    /\ ~call.has_planet
    /\ lambda_e' = [k \in 1..Len(star.phases) |-> Zero]
    /\ pc' = "assemble"
    /\ UNCHANGED <<star, call, tilted_spots, f_spots, transit, result>>
    /\ CoreUnchanged

\* a variant of lines 207-210 that makes the check after the transit model
\* has been computed
RaiseInclinationsLate ==
    /\ pc = "geometry"
    /\ call.has_planet
    /\ multiple_inclinations(call.inc_stellar)
    /\ lambda_e' = [k \in 1..Len(call.times) |->
                      transit_only_loss(call.planet,
                          planet_position(call.planet,
                              get_true_anomaly(call.planet, call.times[k])))]
    /\ pc' = "raised"
    /\ result' = Raised("ValueError: inc_stellar has multiple values")
    /\ UNCHANGED <<star, call, tilted_spots, f_spots, transit>>
    /\ CoreUnchanged

\* lines 207-210: a planet and an array of inclinations
RaiseInclinations ==
    /\ pc = "geometry"
    /\ call.has_planet
    /\ multiple_inclinations(call.inc_stellar)
    /\ pc' = "raised"
    /\ result' = Raised("ValueError: inc_stellar has multiple values")
    /\ UNCHANGED <<star, call, tilted_spots, f_spots, lambda_e, transit>>
    /\ CoreUnchanged

\* lines 211-305: the transit model, the planet's positions, the transit
\* events and their occultation amplitudes.  batman's TransitModel raises
\* when times is not an array.
TransitRoutine ==
    /\ pc = "geometry"
    /\ call.has_planet
    /\ ~multiple_inclinations(call.inc_stellar)
    /\ IF ~call.has_times
       THEN /\ pc' = "raised"
            /\ result' = Raised("Exception: times must be a numpy array")
            /\ UNCHANGED <<lambda_e, transit>>
       ELSE LET planet == call.planet
                pos == [k \in 1..Len(call.times) |->
                          planet_position(planet,
                              get_true_anomaly(planet, call.times[k]))]
                lam0 == [k \in 1..Len(pos) |-> transit_only_loss(planet, pos[k])]
                t0_inds == find_t0_inds(pos)
                groups == consecutive(find_transit_inds_all(planet, pos))
                events == zip_events(star, call, tilted_spots, pos,
                                     t0_inds, groups)
                done == completed(events)
            IN  /\ transit' = [pos |-> pos,
                               planet_disk |->
                                  [k \in 1..Len(pos) |-> in_front(planet, pos[k])],
                               lambda_e0 |-> lam0,
                               t0_inds |-> t0_inds,
                               transit_inds_groups |-> groups,
                               events |-> done]
                /\ lambda_e' = subtract_events(lam0, done)
                /\ IF Len(done) < Len(events)
                   THEN /\ pc' = "raised"
                        /\ result' = Raised("ValueError: zero-size array")
                   ELSE /\ pc' = "assemble"
                        /\ UNCHANGED result
    /\ UNCHANGED <<star, call, tilted_spots, f_spots>>
    /\ CoreUnchanged

\* line 309
Return ==
    /\ pc = "assemble"
    /\ result' = [kind |-> "returned", error |-> None,
                  flux |-> assemble(sum_over_spots(f_spots, star.f0,
                                        Len(call.inc_stellar.vals)),
                                    lambda_e)]
    /\ pc' = "returned"
    /\ UNCHANGED <<star, call, tilted_spots, f_spots, lambda_e, transit>>
    /\ CoreUnchanged

-----------------------------------------------------------------------------
(* fleck/jax.py: ActiveStar.  Arrays are indexed [time][spot][wavelength]  *)
(* [inclination] as in the code's broadcasting dimensions; lat is the      *)
(* colatitude, z < 0 is the near hemisphere, (y, x) is the sky plane.      *)

\* np.pi where it does not cancel, to the precision of the model
Pi == Rat(22, 7)

\* ActiveStar.limb_darkening(mu), as the coefficient of 1/pi
jax_limb_darkening(u_ld, mu) ==
    LET om == RSub(One, mu)
    IN  RDiv(RSub(RSub(One, RMul(u_ld[1], om)), RMul(u_ld[2], RSq(om))),
             ld_denominator(u_ld))

\* ActiveStar.spot_coords: for time index t, spot i, inclination c, the
\* position <<x, y, z>> in fifths; P_rot is a multiple of the time step that
\* makes every phase a quarter turn
spot_position(as, t0, t, i, c) ==
    LET phase == ((4 * (as.times[t] - t0)) \div as.P_rot) % 4
        pl == 3 * phase + as.lon[i]            \* phase + lon = pi/2 - phi
        q == Quarters(90 - as.inclination[c])  \* comp_inclination
        sin_lat == Sin5(as.lat[i])
        cos_lat == Cos5(as.lat[i])
        cs == (Cos5(pl) * sin_lat) \div 5
    IN  << cs * S4(q) + C4(q) * cos_lat,
           (Sin5(pl) * sin_lat) \div 5,
           cos_lat * S4(q) - cs * C4(q) >>

\* the rows spot_coords reads from self.spectrum: a 1-d array is one row
\* (contrast[None, :] of lines 123-124)
spectrum_rows(as) ==
    IF as.spectrum_ndim = 1 THEN <<as.spectrum>> ELSE as.spectrum

\* contrast = self.spectrum / self.phot, [spot][wavelength]
spot_contrasts(as) ==
    [i \in 1..Len(as.lon) |->
       [w \in 1..Len(as.phot) |-> RDiv(spectrum_rows(as)[i][w], as.phot[w])]]

\* jnp.where(spot_position_z < 0, mu, 0)
mask_behind_star(v) ==
    IF v[3] < 0 THEN F5(Mu5(Hypot5(v[1], v[2]))) ELSE Zero

\* self.limb_darkening(mu) / self.limb_darkening(1.0) at the values mu can
\* take, evaluated once
limb_darkening_ratio_at ==
    [u \in { s.u_ld : s \in Stars } |->
       [m5 \in 0..5 |-> RDiv(jax_limb_darkening(u, F5(m5)),
                             jax_limb_darkening(u, One))]]

\* one term of the sum of lines 107-113 (Morris 2020 eqs. 6-7)
spot_term(as, contrast, v, i, w) ==
    RMul(RMul(RMul(RSq(as.rad[i]), RSub(One, contrast[i][w])),
              limb_darkening_ratio_at[as.u_ld][Mu5(Hypot5(v[1], v[2]))]),
         mask_behind_star(v))

\* f0 - jnp.sum(..., axis=1), [time][wavelength][inclination]
spot_model(as, contrast, f0, t0) ==
    [t \in 1..Len(as.times) |->
       [w \in 1..Len(as.phot) |->
          [c \in 1..Len(as.inclination) |->
             RSub(f0, RSum([i \in 1..Len(as.lon) |->
                               spot_term(as, contrast,
                                         spot_position(as, t0, t, i, c),
                                         i, w)]))]]]

\* f_S = pi * rad^2 * sqrt(1 - rsq) * (z < 0), [time][spot][inclination]
spot_area(as, t0) ==
    [t \in 1..Len(as.times) |->
       [i \in 1..Len(as.lon) |->
          [c \in 1..Len(as.inclination) |->
             LET v == spot_position(as, t0, t, i, c)
             IN  IF v[3] < 0
                 THEN RMul(RMul(Pi, RSq(as.rad[i])),
                           F5(Mu5(Hypot5(v[1], v[2]))))
                 ELSE Zero]]]

\* winn 2011 eqs. 1, 3, 4 with ecc = 0 and omega = pi/2: <<X, Y>> in fifths
\* at time index t; inclination in degrees, a multiple of 90
planet_sky_position(as, tr, t) ==
    LET f == (((as.times[t] - tr.t0) * 12) \div tr.period) % 12
    IN  << tr.a * Sin5(f), -(tr.a * Cos5(f) * C4(Quarters(tr.inclination))) >>

\* jaxoplanet's light_curve(u, r=rp, b): the flux change of the transit-only
\* model, -rp^2 while the planet's centre is on the disk, 0 otherwise
transit_only(tr, XY) ==
    IF XY[1] * XY[1] + XY[2] * XY[2] < 25 THEN RNeg(RSq(tr.rp)) ELSE Zero

\* a variant that forgets the hemisphere of the spot
occultation_possible_any_side(as, tr, XY, v, i) ==
    LET d == Fifths(as.rad[i]) + Fifths(tr.rp)
    IN  (v[2] - XY[1]) * (v[2] - XY[1]) + (v[1] - XY[2]) * (v[1] - XY[2])
           < d * d

\* (planet_spot_distance < major_axis + rp) & (spot_position_z < 0)
occultation_possible(as, tr, XY, v, i) ==
    LET d == Fifths(as.rad[i]) + Fifths(tr.rp)
    IN  /\ (v[2] - XY[1]) * (v[2] - XY[1]) + (v[1] - XY[2]) * (v[1] - XY[2])
              < d * d
        /\ v[3] < 0

\* the sample points of area_union_per_time: rad_p * (cos, sin)(theta_p), in
\* tenths of the planet's radius.  The key is the class attribute
\* PRNGKey(0), so every call draws the same points.
MCSamples ==
    { <<0, 0>>, <<9, 0>>, <<-9, 0>>, <<0, 9>>, <<0, -9>>,
      <<4, 4>>, <<-4, 4>>, <<4, -4>>, <<-4, -4>> }

\* the number of sample points (n_mc = 1000 in the code)
n_mc == Cardinality(MCSamples)

\* find_overlap(k) for one sample point (xp, yp), in units of 1/50:
\* in_ellipse & on_star, the ellipse centred on (spot_y, spot_x) with
\* semi-axes alpha = rad and beta = rad * sqrt(1 - rsq) turned by
\* angle = -arctan2(spot_y, spot_x), cleared of denominators
find_overlap(rad, v, xp, yp) ==
    LET rho == Hypot5(v[1], v[2])
        ex == IF rho = 0 THEN 1 ELSE v[1]
        ey == IF rho = 0 THEN 0 ELSE v[2]
        dn == IF rho = 0 THEN 1 ELSE rho
        dh == xp - 10 * v[2]
        dv == yp - 10 * v[1]
        t1 == dh * ex - dv * ey
        t2 == dh * ey + dv * ex
        k  == 2 * Fifths(rad)
        m  == Mu5(rho)
    IN  /\ m * m * t1 * t1 + 25 * t2 * t2 < 25 * m * m * k * k * dn * dn
        /\ xp * xp + yp * yp < 2500

\* area_union_per_time at one time step: for every spot, the sample points
\* counted as occulted
area_union_per_time(as, tr, XY, pos, possible) ==
    [i \in 1..Len(as.lon) |->
       IF possible[i]
       THEN { o \in MCSamples :
                find_overlap(as.rad[i], pos[i],
                             10 * XY[1] + Fifths(tr.rp) * o[1],
                             10 * XY[2] + Fifths(tr.rp) * o[2]) }
       ELSE {}]

\* frac_occulted_per_time_per_spot of lines 298-304, [time][spot], for the
\* single inclination transit_model supports
frac_occulted(as, tr) ==
    [t \in 1..Len(as.times) |->
       LET XY == planet_sky_position(as, tr, t)
           pos == [i \in 1..Len(as.lon) |-> spot_position(as, tr.t0, t, i, 1)]
           possible == [i \in 1..Len(as.lon) |->
                           occultation_possible(as, tr, XY, pos[i], i)]
       IN  IF \E i \in 1..Len(as.lon) : possible[i]
           THEN LET mc == area_union_per_time(as, tr, XY, pos, possible)
                IN  [i \in 1..Len(as.lon) |-> Rat(Cardinality(mc[i]), n_mc)]
           ELSE [i \in 1..Len(as.lon) |-> Zero]]

RECURSIVE RMinSeq(_)
RMinSeq(s) == IF Len(s) = 1 THEN s[1]
              ELSE LET m == RMinSeq(Tail(s)) IN IF RLess(m, s[1]) THEN m ELSE s[1]

\* contaminated_transit of line 306, [time][wavelength]
contaminated_transit(as, tr, f_S) ==
    [t \in 1..Len(as.times) |->
       [w \in 1..Len(as.phot) |->
          LET photosphere ==
                  RMul(RSub(One, RSum([i \in 1..Len(as.lon) |-> f_S[t][i][1]])),
                       as.phot[w])
              time_series_spectrum ==
                  RAdd(photosphere,
                       RSum([i \in 1..Len(as.lon) |->
                                RMul(f_S[t][i][1], as.spectrum[i][w])]))
              contamination ==
                  RAdd(One, RDiv(RSub(time_series_spectrum, photosphere),
                                 time_series_spectrum))
          IN  RDiv(transit_only(tr, planet_sky_position(as, tr, t)),
                   contamination)]]

\* contaminated_transit.min(axis=0), [wavelength]
deepest_transit(as, ct) ==
    [w \in 1..Len(as.phot) |-> RMinSeq([k \in 1..Len(ct) |-> ct[k][w]])]

\* scaled_occultation of line 313, [time][spot][wavelength]
scaled_occultation(as, contrast, deepest, frac) ==
    [t \in 1..Len(as.times) |->
       [i \in 1..Len(as.lon) |->
          [w \in 1..Len(as.phot) |->
             RMul(RNeg(deepest[w]),
                  RMul(RSub(One, contrast[i][w]), frac[t][i]))]]]

\* jnp.sum(scaled_occultation + contaminated_transit, axis=1) of line 317 at
\* one time and wavelength: contaminated_transit has one entry along the
\* spot axis and is broadcast over it before the sum
combine_over_spots(scaled_t, ct_t, w) ==
    RSum([i \in 1..Len(scaled_t) |-> RAdd(scaled_t[i][w], ct_t[w])])

\* the flux returned by transit_model, [time][wavelength][inclination]
transit_flux(as, tr, oot, scaled, ct) ==
    [t \in 1..Len(as.times) |->
       [w \in 1..Len(as.phot) |->
          [c \in 1..Len(as.inclination) |->
             RMul(oot[t][w][c],
                  RAdd(One, combine_over_spots(scaled[t], ct[t], w)))]]]

\* ActiveStar.__init__: the arguments stored on the object
ActiveStar_init(times, lon, lat, rad, spectrum, temperature, inclination, phot, u_ld, P_rot) ==
    [times |-> times, lon |-> lon, lat |-> lat, rad |-> rad,
     spectrum |-> spectrum, T_eff |-> None, temperature |-> temperature,
     inclination |-> inclination, wavelength |-> None, phot |-> phot,
     u_ld |-> u_ld, P_rot |-> P_rot,
     \* jnp.array(spectrum).ndim: rows of spectra, or the empty default
     spectrum_ndim |-> IF spectrum = <<>> THEN 1 ELSE 2]

\* the stars constructed: the spot lists of SpotSets with a spot, the latitude turned
\* into the colatitude ActiveStar expects, one wavelength, the spot spectrum
\* and limb darkening of Stars, one or two inclinations
ActiveStars ==
    { ActiveStar_init(TimesFrom(s, 1),
                      [k \in 1..Len(sp) |-> sp[k].lon],
                      [k \in 1..Len(sp) |-> (3 - sp[k].lat) % 12],
                      [k \in 1..Len(sp) |-> sp[k].rad],
                      [k \in 1..Len(sp) |-> <<st.spot_contrast>>],
                      [k \in 1..Len(sp) |-> 0],
                      inc, <<One>>, st.u_ld, 4) :
        s \in 0..3, sp \in SpotSets \ {<<>>}, st \in Stars,
        inc \in { <<90>>, <<90, 0>> } }

\* the arguments of a transit_model call: omega, ecc and f0 at their defaults
TransitArguments ==
    { [t0 |-> 0, period |-> 12, rp |-> Rat(2, 5), a |-> a, inclination |-> 90,
       f0 |-> One] : a \in {1, 2} }

JaxReady == [pc |-> "ready"]

JaxUnchanged ==
    UNCHANGED <<ld, star, call, pc, tilted_spots, f_spots, lambda_e, transit,
                result>>

\* ActiveStar.rotation_model(f0, t0)
RotationModel ==
    /\ jcall.pc = "ready"
    /\ \E f0 \in {Zero, One}, contrast \in {spot_contrasts(astar)} :
          jcall' = [pc |-> "returned", fn |-> "rotation_model", f0 |-> f0,
                    t0 |-> 0,
                    spot_model |-> spot_model(astar, contrast, f0, 0),
                    f_S |-> spot_area(astar, 0)]
    /\ UNCHANGED astar
    /\ JaxUnchanged

\* ActiveStar.transit_model(t0, period, rp, a, inclination).  The squeeze of
\* line 264 leaves a [time][spot] array only for one inclination and two or
\* more spots, the arrays the scan over spots of area_union_per_time needs.
TransitModel ==
    /\ jcall.pc = "ready"
    /\ Len(astar.inclination) = 1
    /\ Len(astar.lon) >= 2
    /\ \E tr \in TransitArguments :
        \E contrast \in {spot_contrasts(astar)},
           frac \in {frac_occulted(astar, tr)},
           ct \in {contaminated_transit(astar, tr, spot_area(astar, tr.t0))} :
        \E oot \in {spot_model(astar, contrast, tr.f0, tr.t0)},
           scaled \in {scaled_occultation(astar, contrast,
                                          deepest_transit(astar, ct), frac)} :
              jcall' = [pc |-> "returned", fn |-> "transit_model", tr |-> tr,
                        out_of_transit |-> oot,
                        frac_occulted |-> frac,
                        contaminated_transit |-> ct,
                        scaled_occultation |-> scaled,
                        flux |-> transit_flux(astar, tr, oot, scaled, ct)]
    /\ UNCHANGED astar
    /\ JaxUnchanged

\* ActiveStar._blackbody(wavelength, temperature): one value per wavelength,
\* kept as the pair it is computed from
blackbody(wavelength, temperature) ==
    [k \in 1..Len(wavelength) |-> [wl |-> wavelength[k], T |-> temperature]]

\* the stars add_spot is called on: constructed with no spots, with T_eff
\* and a wavelength grid of one or two points
EmptyStars ==
    { [ActiveStar_init(TimesFrom(0, 1), <<>>, <<>>, <<>>, <<>>, <<>>, <<90>>,
                       <<One>>, <<Zero, Zero>>, 4)
          EXCEPT !.wavelength = wl, !.T_eff = 5000] :
        wl \in {<<1>>, <<1, 2>>} }

\* the arguments of an add_spot call: a spot of the catalogue with its
\* temperature, and which of contrast, temperature and spectrum are given
\* (a spectrum is given as an array on the star's wavelength grid)
AddSpotArguments ==
    { [lon |-> SpotCatalogue[k].lon, lat |-> (3 - SpotCatalogue[k].lat) % 12,
       rad |-> SpotCatalogue[k].rad, T |-> 3000 + 500 * k,
       contrast |-> c, temperature |-> t, spectrum |-> sp] :
        k \in 1..2,
        c \in BOOLEAN, t \in BOOLEAN, sp \in BOOLEAN }

\* lines 180-183 for a 1-d new_value: jnp.vstack when the attribute is 2-d
\* or has more than one entry and as many as new_value, else
\* jnp.concatenate
append_to(prop, ndim, new_value) ==
    IF ndim > 1 THEN [data |-> Append(prop, new_value), ndim |-> 2]
    ELSE IF Len(prop) > 1 /\ Len(prop) = Len(new_value)
         THEN [data |-> <<prop, new_value>>, ndim |-> 2]
    ELSE [data |-> prop \o new_value, ndim |-> 1]

\* add_spot(lon, lat, rad, contrast, temperature, spectrum) on the star as:
\* the star afterwards and the exception raised, if any.  The attributes
\* are set one after the other, in the order lon, lat, rad, spectrum,
\* temperature; jnp.array([None]) of a missing value raises TypeError.
add_spot(as, arg) ==
    LET use_blackbody == ~arg.contrast /\ ~arg.spectrum /\ arg.temperature
        s1 == [as EXCEPT !.lon = append_to(as.lon, 1, <<arg.lon>>).data,
                         !.lat = append_to(as.lat, 1, <<arg.lat>>).data,
                         !.rad = append_to(as.rad, 1, <<arg.rad>>).data]
        s0 == IF use_blackbody
              THEN [s1 EXCEPT !.phot = blackbody(as.wavelength, as.T_eff)]
              ELSE s1
        \* computed at line 169, or the caller's array on the same grid
        spectrum == blackbody(as.wavelength, arg.T)
        sp == append_to(as.spectrum, as.spectrum_ndim, spectrum)
        s2 == [s0 EXCEPT !.spectrum = sp.data, !.spectrum_ndim = sp.ndim]
        s3 == [s2 EXCEPT !.temperature =
                            append_to(as.temperature, 1, <<arg.T>>).data]
    IN  IF ~use_blackbody /\ ~arg.spectrum
        THEN [star |-> s0, raised |-> "TypeError"]
        ELSE IF ~arg.temperature
        THEN [star |-> s2, raised |-> "TypeError"]
        ELSE [star |-> s3, raised |-> None]

\* ActiveStar.add_spot; jcall keeps the calls made so far
AddSpot ==
    /\ jcall.pc = "adding"
    /\ Len(jcall.log) <= MaxSpots
    /\ \E arg \in AddSpotArguments :
       \E out \in {add_spot(astar, arg)} :
          /\ astar' = out.star
          /\ jcall' = [jcall EXCEPT
                          !.log = Append(@, [arg |-> arg, raised |-> out.raised,
                                             before |-> astar])]
    /\ JaxUnchanged

-----------------------------------------------------------------------------
(* The limb-darkening functions called on their own.                       *)

\* coefficients: the integers from -MaxU to MaxU, whose thirds and sixths
\* cancel in doubles exactly where they cancel in the rationals, and the
\* values 0.2 and 0.5
LDCoefficients == { Rat(k, 1) : k \in (-MaxU)..MaxU } \cup {Rat(1, 5), Rat(1, 2)}

\* evaluation radii, inside the disk, on the limb and beyond it
LDRadii == { F5(k) : k \in {0, 3, 4, 5, 6, 10} }

LDUnchanged ==
    UNCHANGED <<star, call, pc, tilted_spots, f_spots, lambda_e, transit,
                result, astar, jcall>>

\* limb_darkening(u_ld, r): no statement of it raises
CallLimbDarkening ==
    /\ ld.pc = "idle"
    /\ \E u1 \in LDCoefficients, u2 \in LDCoefficients, r \in LDRadii :
          ld' = [pc |-> "returned", fn |-> "limb_darkening",
                 u_ld |-> <<u1, u2>>, r |-> r,
                 value |-> limb_darkening(<<u1, u2>>, r), raised |-> None]
    /\ LDUnchanged

\* limb_darkening_normed(u_ld, r): no statement of it raises
CallLimbDarkeningNormed ==
    /\ ld.pc = "idle"
    /\ \E u1 \in LDCoefficients, u2 \in LDCoefficients, r \in LDRadii :
          ld' = [pc |-> "returned", fn |-> "limb_darkening_normed",
                 u_ld |-> <<u1, u2>>, r |-> r,
                 value |-> limb_darkening_normed(<<u1, u2>>, r),
                 raised |-> None]
    /\ LDUnchanged

InitCore ==
    /\ star \in { Star_init(s.spot_contrast, s.u_ld, 4, 4) : s \in Stars }
    /\ call = NoCall
    /\ pc = "idle"
    /\ tilted_spots = <<>>
    /\ f_spots = <<>>
    /\ lambda_e = <<>>
    /\ transit = NoTransit
    /\ result = NoResult

Init ==
    /\ InitCore
    /\ ld = LDIdle
    /\ astar = JaxIdle
    /\ jcall = JaxIdle

Next ==
    \/ Call
    \/ SpotGeometry
    \/ SkipTransit
    \/ RaiseInclinations
    \/ TransitRoutine
    \/ Return

Spec == Init /\ [][Next]_vars

CoreIdle ==
    /\ star = Star_init(Zero, <<Zero, Zero>>, 4, 4)
    /\ call = NoCall
    /\ pc = "off"
    /\ tilted_spots = <<>>
    /\ f_spots = <<>>
    /\ lambda_e = <<>>
    /\ transit = NoTransit
    /\ result = NoResult

InitLD ==
    /\ CoreIdle
    /\ ld = LDIdle
    /\ astar = JaxIdle
    /\ jcall = JaxIdle

NextLD ==
    \/ CallLimbDarkening
    \/ CallLimbDarkeningNormed

SpecLD == InitLD /\ [][NextLD]_vars

InitJax ==
    /\ CoreIdle
    /\ ld = LDIdle
    /\ astar \in ActiveStars
    /\ jcall = JaxReady

NextJax ==
    \/ RotationModel
    \/ TransitModel

SpecJax == InitJax /\ [][NextJax]_vars

InitAddSpot ==
    /\ CoreIdle
    /\ ld = LDIdle
    /\ astar \in EmptyStars
    /\ jcall = [pc |-> "adding", log |-> <<>>]

NextAddSpot == AddSpot

SpecAddSpot == InitAddSpot /\ [][NextAddSpot]_vars

\* both implementations side by side: a run is a run of one of them
InitBoth == Init \/ InitJax

NextBoth == Next \/ NextJax

SpecBoth == InitBoth /\ [][NextBoth]_vars

-----------------------------------------------------------------------------
(* Properties.                                                             *)

Finished == pc \in {"assemble", "returned"}

\* the rows of the transit events that the loop has corrected, as pairs of
\* an event and a position in its transit_inds
EventRows ==
    { <<k, i>> \in (1..Len(transit.events)) \X (1..NTimes + 1) :
        /\ Len(transit.events[k].spots) > 0
        /\ i <= Len(transit.events[k].transit_inds) }

NonZeroTerms(row) == { j \in 1..Len(row) : row[j] # Zero }

\* what light_curve subtracted from the transit-only loss at time index t
Subtracted(t) == RSub(transit.lambda_e0[t], lambda_e[t])

IsLargest(x, row) ==
    /\ \E j \in 1..Len(row) : row[j] = x
    /\ \A j \in 1..Len(row) : ~RLess(x, row[j])

\* C1: at every time index of a processed transit at which two or more
\* visible spots overlap the planet, the amount subtracted from lambda_e is
\* the largest of the per-spot corrections, and never their sum.
C1_MaxNotSum ==
    (Finished /\ call.has_planet) =>
        \A e \in EventRows :
            LET ev == transit.events[e[1]]
                row == ev.intersections[e[2]]
            IN  Cardinality(NonZeroTerms(row)) >= 2 =>
                   /\ IsLargest(Subtracted(ev.transit_inds[e[2]]), row)
                   /\ Subtracted(ev.transit_inds[e[2]]) # RSum(row)

\* C1 witness: a returned call in which two spots with different non-zero
\* corrections are occulted at the same time index.
C1_Witness ==
    /\ pc = "returned"
    /\ \E e \in EventRows :
          LET row == transit.events[e[1]].intersections[e[2]]
          IN  \E j1, j2 \in NonZeroTerms(row) : row[j1] # row[j2]

\* the spots with a non-zero occultation correction at time index t
OccultedSpots(t) ==
    { i \in 1..Len(astar.lon) : jcall.scaled_occultation[t][i][1] # Zero }

\* what transit_model adds to the contaminated transit depth at time index t
\* and inclination c once all spots are combined
Correction(t, c) ==
    RSub(RSub(RDiv(jcall.flux[t][1][c], jcall.out_of_transit[t][1][c]), One),
         jcall.contaminated_transit[t][1])

\* C2: in the model returned by ActiveStar.transit_model, at every time step
\* at which two or more spots have a non-zero occultation correction, the
\* correction applied across spots is the single largest per-spot
\* correction, never their sum.
C2_JaxMaxNotSum ==
    (jcall.pc = "returned" /\ jcall.fn = "transit_model") =>
        \A t \in 1..Len(astar.times) :
            (Cardinality(OccultedSpots(t)) >= 2
               /\ IsFinite(jcall.out_of_transit[t][1][1])
               /\ jcall.out_of_transit[t][1][1] # Zero) =>
                Correction(t, 1) =
                    RMaxSeq([i \in 1..Len(astar.lon) |->
                                jcall.scaled_occultation[t][i][1]])

\* C3: a call with a planet and more than one stellar inclination never
\* reaches the transit routine or the return; when it ends it has raised the
\* ValueError of line 208 and holds no flux.
C3_MultipleInclinationsRaise ==
    (call.has_planet /\ Len(call.inc_stellar.vals) > 1) =>
        /\ pc \in {"called", "geometry", "raised"}
        /\ result.kind # "returned"
        /\ result.flux = <<>>
        /\ pc = "raised" =>
              result = Raised("ValueError: inc_stellar has multiple values")

\* C3 witness: such a call, with spots and with times, has raised.
C3_Witness ==
    /\ pc = "raised"
    /\ call.has_planet /\ call.has_times
    /\ Len(call.inc_stellar.vals) > 1
    /\ Len(call.spots) > 0

Rows == IF call.has_times THEN Len(call.times) ELSE Len(star.phases)

HasShape(flux, rows, cols) ==
    /\ Len(flux) = rows
    /\ \A t \in 1..Len(flux) : Len(flux[t]) = cols

\* C4: every returned flux has one row per phase (or per time, when times is
\* given) and one column per inclination, and a call with times and without
\* a planet is answered with such an array.
C4_ShapeAndTimesWithoutPlanet ==
    /\ pc = "returned" =>
          HasShape(result.flux, Rows, Len(call.inc_stellar.vals))
    /\ (pc \in {"returned", "raised"} /\ call.has_times /\ ~call.has_planet) =>
          pc = "returned"

\* the flux deficit of spot i at row t, inclination c, counted as 0 when the
\* spot is on the far hemisphere (x < 0)
NearSideDeficit(t, i, c) ==
    IF tilted_spots[t][i][c][1] < 0 THEN Zero
    ELSE RDiv(f_spots[t][i][c].data, star.f0)

NearSideSum(t, c) ==
    RSum([i \in 1..Len(call.spots) |-> NearSideDeficit(t, i, c)])

\* C5: without a planet the returned flux is, at every phase and
\* inclination, 1 minus the sum over the spots of the flux deficit over f0,
\* a masked spot counting 0, with no transit term; with no spots it is 1.
C5_BaselineFlux ==
    (pc = "returned" /\ ~call.has_planet) =>
        \A t \in 1..Len(result.flux) : \A c \in 1..Len(result.flux[t]) :
            /\ result.flux[t][c] = RSub(One, NearSideSum(t, c))
            /\ call.spots = <<>> => result.flux[t][c] = One

\* C5 witness: a returned call without a planet in which a spot dims the star
\* at one phase and is masked at another.
C5_Witness ==
    /\ pc = "returned" /\ ~call.has_planet
    /\ \E t1, t2 \in 1..Len(result.flux) :
          /\ result.flux[t1][1] # One
          /\ \E i \in 1..Len(call.spots) :
                tilted_spots[t2][i][1][1] < 0 /\ f_spots[t2][i][1].data # Zero

\* the far-hemisphere spots of a light_curve call (x < 0) and of a
\* rotation_model call (not z < 0), as triples of time, spot, inclination
CoreFarSide ==
    { e \in (1..Len(f_spots)) \X (1..Len(call.spots))
               \X (1..Len(call.inc_stellar.vals)) :
        tilted_spots[e[1]][e[2]][e[3]][1] < 0 }

JaxFarSide ==
    { e \in (1..Len(astar.times)) \X (1..Len(astar.lon))
               \X (1..Len(astar.inclination)) :
        ~(spot_position(astar, jcall.t0, e[1], e[2], e[3])[3] < 0) }

\* the term of spot i in the sum of rotation_model before the mask is applied
UnmaskedTerm(t, i, c) ==
    LET v == spot_position(astar, jcall.t0, t, i, c)
        mu == F5(Mu5(Hypot5(v[1], v[2])))
    IN  RMul(RMul(RMul(RSq(astar.rad[i]),
                       RSub(One, RDiv(astar.spectrum[i][1], astar.phot[1]))),
                  RDiv(jax_limb_darkening(astar.u_ld, mu),
                       jax_limb_darkening(astar.u_ld, One))),
             mu)

\* C6: a spot on the far hemisphere adds exactly zero to the summed flux
\* deficit, in light_curve (mask, filled with 0) and in rotation_model
\* (where(z < 0, mu, 0)); in both the spot keeps its position in the arrays.
C6_FarSideAddsZero ==
    /\ pc \in {"geometry", "assemble", "returned"} =>
          /\ \A t \in 1..Len(f_spots) : Len(f_spots[t]) = Len(call.spots)
          /\ \A e \in CoreFarSide :
                /\ f_spots[e[1]][e[2]][e[3]].mask
                /\ RDiv(filled(f_spots[e[1]][e[2]][e[3]]), star.f0) = Zero
    /\ (jcall.pc = "returned" /\ jcall.fn = "rotation_model") =>
          /\ \A t \in 1..Len(astar.times) :
                /\ Len(jcall.f_S[t]) = Len(astar.lon)
                /\ \A c \in 1..Len(astar.inclination) :
                      jcall.spot_model[t][1][c] =
                          RSub(jcall.f0,
                               RSum([i \in 1..Len(astar.lon) |->
                                       IF <<t, i, c>> \in JaxFarSide THEN Zero
                                       ELSE UnmaskedTerm(t, i, c)]))
          /\ \A e \in JaxFarSide : jcall.f_S[e[1]][e[2]][e[3]] = Zero

\* C6 witness: a far-side spot whose unmasked deficit is not zero, next to a
\* near-side spot, in a light_curve call or in a rotation_model call.
C6_Witness ==
    \/ /\ pc = "returned"
       /\ \E e \in CoreFarSide :
             /\ f_spots[e[1]][e[2]][e[3]].data # Zero
             /\ \E i \in 1..Len(call.spots) :
                   /\ ~f_spots[e[1]][i][e[3]].mask
                   /\ f_spots[e[1]][i][e[3]].data # Zero
    \/ /\ jcall.pc = "returned" /\ jcall.fn = "rotation_model"
       /\ \E e \in JaxFarSide :
             /\ UnmaskedTerm(e[1], e[2], e[3]) # Zero
             /\ \E i \in 1..Len(astar.lon) :
                   /\ <<e[1], i, e[3]>> \notin JaxFarSide
                   /\ UnmaskedTerm(e[1], i, e[3]) # Zero

\* the planet at time index t is behind the star or too far from the disk
OutOfTransit(t) ==
    \/ transit.pos[t][1] >= 0
    \/ ~RLess(F5(Abs(transit.pos[t][2])), RAdd(One, call.planet.rp))

InSomeRun(t) ==
    \E g \in 1..Len(transit.transit_inds_groups) :
        \E i \in 1..Len(transit.transit_inds_groups[g]) :
            transit.transit_inds_groups[g][i] = t

\* C7: at every time index at which the planet is not in front of the star
\* or too far to touch the disk, no planet disk exists, the index is in no
\* in-transit run and lambda_e keeps the transit-only value; an index whose
\* lambda_e was changed lies in an in-transit run.
C7_OutOfTransitUnchanged ==
    (Finished /\ call.has_planet) =>
        \A t \in 1..Len(lambda_e) :
            /\ OutOfTransit(t) =>
                  /\ lambda_e[t] = transit.lambda_e0[t]
                  /\ ~transit.planet_disk[t]
                  /\ ~InSomeRun(t)
            /\ lambda_e[t] # transit.lambda_e0[t] => InSomeRun(t)

\* C7 witness: a returned transit call in which one index is out of transit
\* and the loss at another was corrected.
C7_Witness ==
    /\ pc = "returned" /\ call.has_planet
    /\ \E t1, t2 \in 1..Len(lambda_e) :
          OutOfTransit(t1) /\ lambda_e[t2] # transit.lambda_e0[t2]

InclinationError ==
    result = Raised("ValueError: inc_stellar has multiple values")

\* C8 as claimed: when the inclination error is raised, neither the spot
\* coordinate transform nor the flux-deficit computation has been executed.
C8_RaisedBeforeGeometry ==
    InclinationError => (tilted_spots = <<>> /\ f_spots = <<>>)

\* C8 as amended: the inclination error is raised after the spot coordinate
\* transform and the flux deficits have been computed, and before the
\* transit model, the planet positions and any overlap are computed.
C8_RaisedAfterGeometryBeforeTransit ==
    InclinationError =>
        /\ tilted_spots # <<>> /\ f_spots # <<>>
        /\ lambda_e = <<>> /\ transit = NoTransit

\* C8 witness: the inclination error raised in a call with spots.
C8_Witness == InclinationError /\ Len(call.spots) > 0

\* C9 as claimed: a call of a limb-darkening function with r > 1 fails with
\* a domain error.
C9_DomainError ==
    (ld.pc = "returned" /\ RLess(One, ld.r)) => ld.raised = "DomainError"

\* C9 as amended: a call of a limb-darkening function with r > 1 raises
\* nothing and returns nan.
C9_ReturnsNaN ==
    (ld.pc = "returned" /\ RLess(One, ld.r)) =>
        (ld.raised = None /\ IsNaN(ld.value))

\* C9 witness: limb_darkening_normed has returned for r = 2.
C9_Witness ==
    /\ ld.pc = "returned" /\ ld.fn = "limb_darkening_normed"
    /\ ld.r = Rat(2, 1)

NormedAtCentre ==
    /\ ld.pc = "returned" /\ ld.fn = "limb_darkening_normed" /\ ld.r = Zero
    /\ RLess(RAdd(ld.u_ld[1], ld.u_ld[2]), One)

\* C10 as claimed: for every u1 + u2 < 1, limb_darkening_normed(u_ld, 0) is
\* exactly 1.
C10_NormedCentreIsOne == NormedAtCentre => ld.value = One

\* C10 as amended: for every u1 + u2 < 1 for which 1 - u1/3 - u2/6 is not
\* zero, limb_darkening_normed(u_ld, 0) is exactly 1.
C10_NormedCentreIsOneWhereDefined ==
    (NormedAtCentre /\ 6 * ld.u_ld[1][1] * ld.u_ld[2][2]
                          + 3 * ld.u_ld[2][1] * ld.u_ld[1][2]
                       # 18 * ld.u_ld[1][2] * ld.u_ld[2][2]) =>
        ld.value = One

\* C10 witness: limb_darkening_normed([0.5, 0], 0) has returned.
C10_Witness == NormedAtCentre /\ ld.u_ld = <<Rat(1, 2), Zero>>

\* the angles of a light_curve call, in quarter turns: the rotation phase of
\* row t, the tilt of inclination c and the spin-orbit misalignment
SpinPhase(t) ==
    IF call.has_times
    THEN ((4 * (call.times[t] - call.planet.t0)) \div star.rotation_period) % 4
    ELSE star.phases[t]

Tilt(c) == Quarters(call.inc_stellar.vals[c] - 90)

Misalignment ==
    IF call.has_planet /\ call.planet.has_lam THEN Quarters(call.planet.lam)
    ELSE 0

\* spot i of the call on the unit sphere, turned about z, then y, then x
ThreeRotations(t, i, c) ==
    LET about_z == rotation_matrix(SpinPhase(t), "z",
                       UnitSpherical(call.spots[i].lon, call.spots[i].lat))
        about_y == rotation_matrix(Tilt(c), "y", about_z)
    IN  rotation_matrix(Misalignment, "x", about_y)

\* the same three rotations with the last two exchanged
RotationsExchanged(t, i, c) ==
    LET about_z == rotation_matrix(SpinPhase(t), "z",
                       UnitSpherical(call.spots[i].lon, call.spots[i].lat))
        about_x == rotation_matrix(Misalignment, "x", about_z)
    IN  rotation_matrix(Tilt(c), "y", about_x)

GeometryDone == pc \in {"geometry", "assemble", "returned"}

\* C11: every spot position computed by spot_params_to_cartesian is the unit
\* vector of the spot rotated about z by the rotation phase, then about y by
\* (inclination - 90 degrees), then about x by the misalignment angle, which
\* is 0 when there is no planet or the planet has no lam.
C11_RotationOrder ==
    GeometryDone =>
        /\ (~call.has_planet \/ ~call.planet.has_lam) => Misalignment = 0
        /\ \A t \in 1..Len(tilted_spots) :
              /\ Len(tilted_spots[t]) = Len(call.spots)
              /\ \A i \in 1..Len(call.spots) :
                    \A c \in 1..Len(call.inc_stellar.vals) :
                        tilted_spots[t][i][c] = ThreeRotations(t, i, c)

\* C11 witness: a call with a misaligned planet in which all three rotations
\* move a spot and exchanging two of them would give another position.
C11_Witness ==
    /\ GeometryDone /\ call.has_planet /\ call.planet.has_lam
    /\ \E t \in 1..Len(tilted_spots) : \E i \in 1..Len(call.spots) :
          /\ SpinPhase(t) # 0 /\ Tilt(1) # 0 /\ Misalignment # 0
          /\ tilted_spots[t][i][1] # RotationsExchanged(t, i, 1)

TransitModelReturned == jcall.pc = "returned" /\ jcall.fn = "transit_model"

\* in a transit_model call: the position of spot i at time index t, and the
\* planet's sky position, both in fifths
JaxSpot(t, i) == spot_position(astar, jcall.tr.t0, t, i, 1)

JaxPlanet(t) == planet_sky_position(astar, jcall.tr, t)

\* the planet disk is centred on the ellipse of in-view spot i and is at
\* least as wide as its major axis
CentredOnSpot(t, i) ==
    /\ JaxSpot(t, i)[3] < 0
    /\ JaxPlanet(t) = <<JaxSpot(t, i)[2], JaxSpot(t, i)[1]>>
    /\ ~RLess(jcall.tr.rp, astar.rad[i])

\* C12: when the planet disk is centred exactly on an in-view spot's ellipse
\* centre and the planet radius is at least the spot's major axis, the
\* occulted fraction transit_model computes for that spot and time is 1.
C12_CentredFractionIsOne ==
    TransitModelReturned =>
        \A t \in 1..Len(astar.times) : \A i \in 1..Len(astar.lon) :
            CentredOnSpot(t, i) => jcall.frac_occulted[t][i] = One

\* the entries of the intersections arrays of the processed events, as
\* triples of an event, a row and a position in the event's spot list
EventEntries ==
    { e \in (1..Len(transit.events)) \X (1..NTimes + 1) \X (1..MaxSpots + 1) :
        /\ e[2] <= Len(transit.events[e[1]].transit_inds)
        /\ e[3] <= Len(transit.events[e[1]].spots) }

\* the centres <<a, b>> and <<c, d>> (fifths) are at least the sum of the
\* two radii apart
BeyondReach(a, b, c, d, rad, rp) ==
    (a - c) * (a - c) + (b - d) * (b - d)
        >= (Fifths(rad) + Fifths(rp)) * (Fifths(rad) + Fifths(rp))

\* spot s of a light_curve call, where it is at time index t, is out of view
\* or out of the planet's reach at time index row
CoreUnreachable(row, t, s) ==
    \/ ~(tilted_spots[t][s][1][1] > 0)
    \/ BeyondReach(transit.pos[row][2], transit.pos[row][3],
                   tilted_spots[t][s][1][2], tilted_spots[t][s][1][3],
                   call.spots[s].rad, call.planet.rp)

\* in transit_model no sample is counted for a spot that is out of view or
\* out of the planet's reach at the time step
JaxUnreachableIsZero ==
    TransitModelReturned =>
        \A t \in 1..Len(astar.times) : \A i \in 1..Len(astar.lon) :
            (\/ ~(JaxSpot(t, i)[3] < 0)
             \/ BeyondReach(JaxPlanet(t)[1], JaxPlanet(t)[2],
                            JaxSpot(t, i)[2], JaxSpot(t, i)[1],
                            astar.rad[i], jcall.tr.rp))
                => jcall.frac_occulted[t][i] = Zero

\* C13: a spot that at a time step is out of view, or whose projected
\* ellipse the planet disk cannot reach, gets overlap 0 at that time step:
\* no sample counted in transit_model, a correction entry of 0 in
\* light_curve.
C13_UnreachableIsZero ==
    /\ JaxUnreachableIsZero
    /\ (Finished /\ call.has_planet) =>
          \A e \in EventEntries :
              LET ev == transit.events[e[1]]
              IN  CoreUnreachable(ev.transit_inds[e[2]], ev.transit_inds[e[2]],
                                  ev.spots[e[3]])
                     => ev.intersections[e[2]][e[3]] = Zero

\* C13 as the code has it: transit_model as above; light_curve places every
\* spot where it is at the event's reference index t0_ind: a spot out of
\* view there has no entry, one out of reach of the planet at the row's time
\* has entry 0.
C13_UnreachableAtReferenceIsZero ==
    /\ JaxUnreachableIsZero
    /\ (Finished /\ call.has_planet) =>
          /\ \A k \in 1..Len(transit.events) : \A s \in 1..Len(call.spots) :
                ~(tilted_spots[transit.events[k].t0_ind][s][1][1] > 0) =>
                    \A j \in 1..Len(transit.events[k].spots) :
                        transit.events[k].spots[j] # s
          /\ \A e \in EventEntries :
                LET ev == transit.events[e[1]]
                IN  CoreUnreachable(ev.transit_inds[e[2]], ev.t0_ind,
                                    ev.spots[e[3]])
                       => ev.intersections[e[2]][e[3]] = Zero

\* C13 witness, light_curve: an event with one spot out of view at t0_ind, and
\* an entry of 0 for a spot out of reach next to a non-zero entry.
C13_WitnessCore ==
    /\ pc = "returned" /\ call.has_planet
    /\ \E e1, e2 \in EventEntries :
          LET ev == transit.events[e1[1]]
          IN  /\ e2[1] = e1[1]
              /\ Len(ev.spots) < Len(call.spots)
              /\ CoreUnreachable(ev.transit_inds[e1[2]], ev.t0_ind,
                                 ev.spots[e1[3]])
              /\ ev.intersections[e2[2]][e2[3]] # Zero

\* C13 witness, transit_model: at one time step a spot with samples counted,
\* and a spot out of view lying under the planet disk.
C13_WitnessJax ==
    /\ TransitModelReturned
    /\ \E t \in 1..Len(astar.times) : \E i1, i2 \in 1..Len(astar.lon) :
          /\ jcall.frac_occulted[t][i1] # Zero
          /\ ~(JaxSpot(t, i2)[3] < 0)
          /\ ~BeyondReach(JaxPlanet(t)[1], JaxPlanet(t)[2],
                          JaxSpot(t, i2)[2], JaxSpot(t, i2)[1],
                          astar.rad[i2], jcall.tr.rp)

C13_Witness == C13_WitnessCore \/ C13_WitnessJax

\* the reference index of event k lies in the event's run of in-transit
\* indices, or the index after it (the far side of the sign change) does
ReferenceInRun(k) ==
    \E i \in 1..Len(transit.events[k].transit_inds) :
        transit.events[k].transit_inds[i]
            \in {transit.events[k].t0_ind, transit.events[k].t0_ind + 1}

\* C14: for every transit event light_curve processes, the reference index
\* t0_ind at which spot visibility and ellipses are evaluated belongs to the
\* run of in-transit indices corrected with those spots, for every times
\* array.
C14_ReferenceIndexInItsRun ==
    (Finished /\ call.has_planet) =>
        \A k \in 1..Len(transit.events) :
            Len(transit.events[k].spots) > 0 => ReferenceInRun(k)

\* spot s is admitted to the planet-overlap test of event k
Admitted(k, s) ==
    \E j \in 1..Len(transit.events[k].spots) : transit.events[k].spots[j] = s

\* C15: light_curve has one visibility rule, x > 0: at the time index at
\* which an event's spots are chosen, the spots left unmasked in the
\* rotational flux sum are exactly the spots with x > 0 and exactly the
\* spots admitted to the planet-overlap test, the boundary x = 0 included.
C15_OneVisibilityRule ==
    (Finished /\ call.has_planet) =>
        \A k \in 1..Len(transit.events) : \A s \in 1..Len(call.spots) :
            LET t == transit.events[k].t0_ind
            IN  /\ ~f_spots[t][s][1].mask <=> tilted_spots[t][s][1][1] > 0
                /\ ~f_spots[t][s][1].mask <=> Admitted(k, s)

\* C15 as the code has it: at the time index at which an event's spots are
\* chosen, a spot is masked in the flux sum exactly when x < 0 and admitted
\* to the overlap test exactly when x > 0; a spot with x = 0 is unmasked, not
\* admitted, and its flux deficit is 0.
C15_TwoRulesAgreeOffTheLimb ==
    (Finished /\ call.has_planet) =>
        \A k \in 1..Len(transit.events) : \A s \in 1..Len(call.spots) :
            LET t == transit.events[k].t0_ind
                x == tilted_spots[t][s][1][1]
            IN  /\ f_spots[t][s][1].mask <=> x < 0
                /\ Admitted(k, s) <=> x > 0
                /\ x = 0 => /\ ~f_spots[t][s][1].mask
                            /\ ~Admitted(k, s)
                            /\ f_spots[t][s][1].data = Zero

\* C15 witness: a returned call with an event at whose reference index one
\* spot is on the limb (x = 0) and another is in view and admitted.
C15_Witness ==
    /\ pc = "returned" /\ call.has_planet
    /\ \E k \in 1..Len(transit.events) : \E s1, s2 \in 1..Len(call.spots) :
          LET t == transit.events[k].t0_ind
          IN  /\ tilted_spots[t][s1][1][1] = 0
              /\ tilted_spots[t][s2][1][1] > 0
              /\ Admitted(k, s2)

\* the add_spot calls made so far, and whether all of them returned
AddSpotLog == IF jcall.pc = "adding" THEN jcall.log ELSE <<>>

AllReturned == \A k \in 1..Len(AddSpotLog) : AddSpotLog[k].raised = None

\* C16: after n add_spot calls that all returned, on a star constructed with
\* no spots, lon, lat and rad hold the n values given, in call order, and
\* the spectrum holds n rows, the k-th the spectrum of the k-th call on the
\* star's wavelength grid.
C16_SpotsAppendedInOrder ==
    (Len(AddSpotLog) >= 1 /\ AllReturned) =>
        /\ astar.lon = [k \in 1..Len(AddSpotLog) |-> AddSpotLog[k].arg.lon]
        /\ astar.lat = [k \in 1..Len(AddSpotLog) |-> AddSpotLog[k].arg.lat]
        /\ astar.rad = [k \in 1..Len(AddSpotLog) |-> AddSpotLog[k].arg.rad]
        /\ spectrum_rows(astar) =
              [k \in 1..Len(AddSpotLog) |->
                  blackbody(astar.wavelength, AddSpotLog[k].arg.T)]

\* the spots recorded by the scalar entries of the spectrum
SpectrumSpots == 
    IF astar.spectrum_ndim = 1 THEN Len(astar.spectrum) \div Len(astar.wavelength)
    ELSE Len(astar.spectrum)

\* C18: add_spot is all-or-nothing: after any sequence of calls, lon, lat,
\* rad, spectrum and temperature record the same number of spots, and a call
\* that raised left the star as it was.
C18_AllOrNothing ==
    Len(AddSpotLog) >= 1 =>
        /\ Len(astar.lat) = Len(astar.lon)
        /\ Len(astar.rad) = Len(astar.lon)
        /\ SpectrumSpots = Len(astar.lon)
        /\ Len(astar.temperature) = Len(astar.lon)
        /\ AddSpotLog[Len(AddSpotLog)].raised # None =>
              astar = AddSpotLog[Len(AddSpotLog)].before

\* the in-transit runs that hold at least one time index
NonEmptyRuns ==
    { g \in 1..Len(transit.transit_inds_groups) :
        transit.transit_inds_groups[g] # <<>> }

\* C17: when light_curve finishes with a planet, the number of detected
\* mid-transit reference indices equals the number of non-empty in-transit
\* runs, and every such run is one the occultation loop has processed.
C17_EveryRunProcessed ==
    (Finished /\ call.has_planet) =>
        /\ Len(transit.t0_inds) = Cardinality(NonEmptyRuns)
        /\ \A g \in NonEmptyRuns : g <= Len(transit.events)

=============================================================================
